---- MODULE Spec2Model ----
(***************************************************************************)
(* Model of the Linkam TST350 temperature axis of sardana-linkam:          *)
(* sardana_linkam/ctrl/LinkamTST350TempMotorCtrl.py.                        *)
(*                                                                         *)
(* One axis of the controller is modelled.  Every handler of the           *)
(* controller (StateOne, ReadOne, StartOne, AbortOne, SetAxisPar,           *)
(* SetAxisExtraPar) is one atomic action; the values the device returns    *)
(* and the failures of the device calls are inputs of the action.          *)
(* self.state and self.status are written on every path of StateOne        *)
(* before it returns them and are read nowhere else: they are modelled as  *)
(* the value StateOne returns.                                             *)
(* Temperatures, velocities and times are integers chosen so that every    *)
(* float operation of the code is exact on them.                           *)
(***************************************************************************)
EXTENDS Integers, Sequences, FiniteSets, TLC

\* ------------------------------------------------------------------ bounds
\* Last instant of the clock (seconds) the model explores.
MaxTime == 90

\* ------------------------------------------------------- program constants
\* startup = 30 : fixed allowance added to every move timeout (seconds).
Startup == 30

\* ------------------------------------------------------------ value domains
\* self._target_temp / self._current_temp are None or a float: an optional
\* value is the empty tuple or a one-element tuple.
None == << >>

\* self._move_timeout is float('inf') or a finite absolute time <<t>>.
Inf == << >>

\* Healthy value of the ErrorMsg attribute.
NoError == "No_error"

\* Values the ErrorMsg attribute takes in the model.
ErrorMsgs == {NoError, "Stage_error"}

\* Values the Program attribute takes in the model.
Programs == {"Heating", "Holding"}

\* Values the Temperature attribute takes in the model (device units).
RawTemps == {0, 2}

\* Positions StartOne is called with (position units).
Targets == {0, 1}

\* Values SetAxisPar stores in attributes[axis]['velocity'] (deg/min).
Velocities == {0, 1, 2}

\* Values SetAxisPar stores in attributes[axis]['step_per_unit'].
StepsPerUnit == {1, 2}

\* Values SetAxisExtraPar stores in attributes[axis]['tolerance'].
Tolerances == {0, 1}

\* Amounts of time (seconds) that pass between two calls.
ClockSteps == {30}

\* Fixed status strings of StateOne.
CommProblem == "DS communication problem"

NotReached == "Motor did not reach the desired position."

\* The three read_attribute calls of one StateOne poll (IdleT, ErrorMsg,
\* Program).  failed: one of them raised; the values read before it are
\* dropped with the frame of the call, so they carry a fixed filler.
PollReads ==
    { r \in [failed : BOOLEAN, idle : BOOLEAN, error : ErrorMsgs, program : Programs] :
        r.failed => (r.idle = FALSE /\ r.error = NoError /\ r.program = "Heating") }

Abs(x) == IF x < 0 THEN -x ELSE x

\* What a handler other than StateOne leaves in reads / returned.
NoReads == [failed |-> FALSE, idle |-> FALSE, error |-> NoError, program |-> "Heating"]

NoReturn == [state |-> "none", status |-> "none"]

VARIABLES
    target_temp,    \* self._target_temp
    current_temp,   \* self._current_temp
    move_timeout,   \* self._move_timeout
    attributes,     \* self.attributes[axis]
    now,            \* time.time(); it never runs backwards
    lastCall,       \* the last step: handler, argument, the point it left at
    reads,          \* what the device returned to it, if it was a StateOne
    returned,       \* the (state, status) it returned, if it was a StateOne
    alarms,         \* polls that reported Alarm since the last StartOne/AbortOne (0, 1, many)
    ramp_active,    \* a StartOne returned; no poll reported On and no abort returned since
    sent,           \* the commands the last step sent to the device
    completed       \* a poll reported On for an active ramp; StartOne was not called since

vars == << target_temp, current_temp, move_timeout, attributes, now, lastCall,
           reads, returned, alarms, ramp_active, sent,
           completed >>

\* The state of one invocation of a ramp macro (sardana_linkam/macro/linkam.py).
VARIABLES
    macro,          \* the macro invoked: "linkam_ramp" or "linkam_ramp_old" ("none": no invocation)
    ramp_target,    \* run(): target (temperature in linkam_ramp_old)
    rate,           \* run(): rate
    pump_profile,   \* run(): pump_profile; the rows of the file, or NoProfile
    tempi,          \* run(): tempi (0 until it is read)
    temp,           \* run(): temp (0 until it is assigned)
    rampup,         \* run(): rampup (FALSE until it is assigned)
    pump,           \* linkam_ramp_old.run(): pump, a fraction (0 until it is assigned)
    pc,             \* the position of the invocation
    trace           \* the device calls made and the values yielded, in order

rampVars == << macro, ramp_target, rate, pump_profile, tempi, temp, rampup, pump, pc,
               trace >>

\* The state of LinkamT96MotorCtrl (sardana_linkam/ctrl/LinkamT96MotorCtrl.py).
VARIABLES
    t96_attributes, \* self.attributes['axis_tst_stretcher']
    t96_call        \* the last SetAxisPar / GetAxisPar call and how it ended

t96Vars == << t96_attributes, t96_call >>

\* ------------------------------------------------------------------ StateOne
\* What one StateOne poll leaves behind: the returned (state, status) and the
\* retained target and timeout; branch names the path taken.
Outcome(st, msg, tgt, tmo, br) ==
    [state |-> st, status |-> msg, target |-> tgt, timeout |-> tmo, branch |-> br]

\* time.time() < self._move_timeout
BeforeTimeout(t, timeout) == timeout = Inf \/ t < timeout[1]

\* Variant of ToleranceCheck: the tolerance must exceed the gap (> for >=).
ToleranceCheck_Strict(program, target, current, tol, timeout) ==
    IF target # None /\ current # None /\ tol > 0
    THEN IF tol > Abs(target[1] - current[1])
         THEN Outcome("On", program, None, Inf, "settled")
         ELSE Outcome("Moving", program, target, timeout, "waiting")
    ELSE Outcome("On", program, target, timeout, "idle")

\* Variant of ToleranceCheck: tolerance 0 takes the tolerance path (>= 0 for > 0).
ToleranceCheck_ZeroExact(program, target, current, tol, timeout) ==
    IF target # None /\ current # None /\ tol >= 0
    THEN IF tol >= Abs(target[1] - current[1])
         THEN Outcome("On", program, None, Inf, "settled")
         ELSE Outcome("Moving", program, target, timeout, "waiting")
    ELSE Outcome("On", program, target, timeout, "idle")

\* A tolerance test that reports On for an idle instrument outside the tolerance too.
ToleranceCheck_IdleIsSettled(program, target, current, tol, timeout) ==
    IF target # None /\ current # None /\ tol > 0
    THEN IF tol >= Abs(target[1] - current[1])
         THEN Outcome("On", program, None, Inf, "settled")
         ELSE Outcome("On", program, target, timeout, "waiting")
    ELSE Outcome("On", program, target, timeout, "idle")

\* The tolerance test of the idle branch, reached with self.state = Moving.
ToleranceCheck(program, target, current, tol, timeout) ==
    IF target # None /\ current # None /\ tol > 0
    THEN IF tol >= Abs(target[1] - current[1])
         THEN Outcome("On", program, None, Inf, "settled")
         ELSE Outcome("Moving", program, target, timeout, "waiting")
    ELSE Outcome("On", program, target, timeout, "idle")

\* Variant of IdlePoll: the idle branch never tests the timeout.
IdlePoll_NoTimeout(program, t, target, current, tol, timeout) ==
    ToleranceCheck(program, target, current, tol, timeout)

\* Variant of IdlePoll: reporting Alarm resets the timeout.
IdlePoll_AlarmOnce(program, t, target, current, tol, timeout) ==
    IF BeforeTimeout(t, timeout)
    THEN ToleranceCheck(program, target, current, tol, timeout)
    ELSE Outcome("Alarm", NotReached, target, Inf, "alarm_idle")

\* if idle: timeout test first (Alarm returns at once), then the tolerance test.
IdlePoll(program, t, target, current, tol, timeout) ==
    IF BeforeTimeout(t, timeout)
    THEN ToleranceCheck(program, target, current, tol, timeout)
    ELSE Outcome("Alarm", NotReached, target, timeout, "alarm_idle")

\* Variant of BusyPoll: the not-idle branch settles within the tolerance too.
BusyPoll_ToleranceCheck(program, t, target, current, tol, timeout) ==
    IF BeforeTimeout(t, timeout)
    THEN IF target # None /\ current # None /\ tol > 0
            /\ tol >= Abs(target[1] - current[1])
         THEN Outcome("On", program, None, Inf, "moving")
         ELSE Outcome("Moving", program, target, timeout, "moving")
    ELSE Outcome("Alarm", NotReached, target, timeout, "alarm_busy")

\* else (not idle): Moving before the timeout, Alarm from it on.
BusyPoll(program, t, target, current, tol, timeout) ==
    IF BeforeTimeout(t, timeout)
    THEN Outcome("Moving", program, target, timeout, "moving")
    ELSE Outcome("Alarm", NotReached, target, timeout, "alarm_busy")

\* Variant of PollOutcome: a failed read drops the target and the timeout.
PollOutcome_CommClears(r, t, target, current, tol, timeout) ==
    IF r.failed
    THEN Outcome("Fault", CommProblem, None, Inf, "comm")
    ELSE IF r.error = NoError
         THEN IF r.idle
              THEN IdlePoll(r.program, t, target, current, tol, timeout)
              ELSE BusyPoll(r.program, t, target, current, tol, timeout)
         ELSE Outcome("Fault", r.program, target, timeout, "error")

\* Variant of PollOutcome: the timeout is tested before ErrorMsg.
PollOutcome_TimeoutFirst(r, t, target, current, tol, timeout) ==
    IF r.failed
    THEN Outcome("Fault", CommProblem, target, timeout, "comm")
    ELSE IF ~BeforeTimeout(t, timeout)
         THEN Outcome("Alarm", NotReached, target, timeout, "alarm_busy")
         ELSE IF r.error = NoError
              THEN IF r.idle
                   THEN IdlePoll(r.program, t, target, current, tol, timeout)
                   ELSE BusyPoll(r.program, t, target, current, tol, timeout)
              ELSE Outcome("Fault", r.program, target, timeout, "error")

\* The whole of StateOne as a function of what the device returned (r), the
\* time and the retained fields.
PollOutcome(r, t, target, current, tol, timeout) ==
    IF r.failed
    THEN Outcome("Fault", CommProblem, target, timeout, "comm")
    ELSE IF r.error = NoError
         THEN IF r.idle
              THEN IdlePoll(r.program, t, target, current, tol, timeout)
              ELSE BusyPoll(r.program, t, target, current, tol, timeout)
         ELSE Outcome("Fault", r.program, target, timeout, "error")

\* The record of a step: the handler, its argument (StartOne's temperature)
\* and the point it left at.
Call(op, arg, exit) == [op |-> op, arg |-> arg, exit |-> exit]

\* A poll that sends HoldTemp when it finds the ramp settled within tolerance.
StateOneOn_HoldsWhenSettled(r) ==
    LET out == PollOutcome(r, now, target_temp, current_temp,
                           attributes.tolerance, move_timeout)
    IN  /\ returned' = [state |-> out.state, status |-> out.status]
        /\ target_temp' = out.target
        /\ move_timeout' = out.timeout
        /\ reads' = r
        /\ lastCall' = Call("StateOne", None, out.branch)
        /\ sent' = IF out.branch = "settled" THEN << << "HoldTemp", None >> >> ELSE << >>
        /\ alarms' = IF out.state = "Alarm"
                     THEN (IF alarms = 0 THEN 1 ELSE 2)
                     ELSE alarms
        /\ ramp_active' = (ramp_active /\ out.state # "On")
        /\ completed' = (completed \/ (ramp_active /\ out.state = "On"))
        /\ UNCHANGED << current_temp, attributes, now, rampVars, t96Vars >>

\* One StateOne poll in which the device returns r.
StateOneOn(r) ==
    LET out == PollOutcome(r, now, target_temp, current_temp,
                           attributes.tolerance, move_timeout)
    IN  /\ returned' = [state |-> out.state, status |-> out.status]
        /\ target_temp' = out.target
        /\ move_timeout' = out.timeout
        /\ reads' = r
        /\ lastCall' = Call("StateOne", None, out.branch)
        /\ sent' = << >>
        /\ alarms' = IF out.state = "Alarm"
                     THEN (IF alarms = 0 THEN 1 ELSE 2)
                     ELSE alarms
        /\ ramp_active' = (ramp_active /\ out.state # "On")
        /\ completed' = (completed \/ (ramp_active /\ out.state = "On"))
        /\ UNCHANGED << current_temp, attributes, now, rampVars, t96Vars >>

StateOne == \E r \in PollReads : StateOneOn(r)

\* ------------------------------------------------------------------- ReadOne
\* value / step_per_unit (exact on the model's values).
Position(raw, spu) == raw \div spu

\* ReadOne with the Temperature read succeeding (ok, value raw) or raising.
ReadOne ==
    \E ok \in BOOLEAN, raw \in RawTemps :
        /\ (~ok => raw = 0)
        /\ current_temp' = IF ok THEN << Position(raw, attributes.step_per_unit) >>
                                 ELSE current_temp
        /\ lastCall' = Call("ReadOne", None, IF ok THEN "done" ELSE "read")
        /\ reads' = NoReads
        /\ sent' = << >>
        /\ returned' = NoReturn
        /\ UNCHANGED << target_temp, move_timeout, attributes, now, alarms,
                        ramp_active, completed, rampVars, t96Vars >>

\* ------------------------------------------------------------------ StartOne
\* _time * 2 with _time = _delta_t / velocity * 60.0, velocity # 0.
TwiceRampTime(delta, velocity) == (2 * delta * 60) \div velocity

\* time.time() + _time * 2 + startup
MoveTimeout(t, delta, velocity) == t + TwiceRampTime(delta, velocity) + Startup

\* The points StartOne can leave at: the Temperature read raises ("read"),
\* the division by a zero velocity raises ("velocity"), the StartRamp
\* command raises ("command"), or it returns ("done").
StartExits == {"read", "velocity", "command", "done"}

\* Variant of StartOneOn: a timeout already stored is kept.
StartOneOn_KeepsTimeout(temperature, raw, exit) ==
    LET spu      == attributes.step_per_unit
        velocity == attributes.velocity
        scaled   == temperature * spu
        position == Position(raw, spu)
        delta    == Abs(position - scaled)
    IN  /\ (exit = "read" => raw = 0)
        /\ (exit = "velocity") <=> (velocity = 0 /\ exit # "read")
        /\ target_temp' = << temperature >>
        /\ current_temp' = IF exit = "read" THEN current_temp ELSE << position >>
        /\ move_timeout' = IF exit = "done" /\ move_timeout = Inf
                           THEN << MoveTimeout(now, delta, velocity) >>
                           ELSE move_timeout
        /\ lastCall' = Call("StartOne", << temperature >>, exit)
        /\ reads' = NoReads
        /\ sent' = IF exit \in {"command", "done"}
                   THEN << << "StartRamp", << velocity * 60, scaled >> >> >>
                   ELSE << >>
        /\ returned' = NoReturn
        /\ alarms' = 0
        /\ ramp_active' = (ramp_active \/ exit = "done")
        /\ completed' = FALSE
        /\ UNCHANGED << attributes, now, rampVars, t96Vars >>

\* StartOne(axis, temperature) with the device returning raw for Temperature
\* and the call leaving at exit.
StartOneOn(temperature, raw, exit) ==
    LET spu      == attributes.step_per_unit
        velocity == attributes.velocity
        scaled   == temperature * spu
        position == Position(raw, spu)
        delta    == Abs(position - scaled)
    IN  /\ (exit = "read" => raw = 0)
        /\ (exit = "velocity") <=> (velocity = 0 /\ exit # "read")
        /\ target_temp' = << temperature >>
        /\ current_temp' = IF exit = "read" THEN current_temp ELSE << position >>
        /\ move_timeout' = IF exit = "done"
                           THEN << MoveTimeout(now, delta, velocity) >>
                           ELSE move_timeout
        /\ lastCall' = Call("StartOne", << temperature >>, exit)
        /\ reads' = NoReads
        /\ sent' = IF exit \in {"command", "done"}
                   THEN << << "StartRamp", << velocity * 60, scaled >> >> >>
                   ELSE << >>
        /\ returned' = NoReturn
        /\ alarms' = 0
        /\ ramp_active' = (ramp_active \/ exit = "done")
        /\ completed' = FALSE
        /\ UNCHANGED << attributes, now, rampVars, t96Vars >>

StartOne ==
    \E temperature \in Targets, raw \in RawTemps, exit \in StartExits :
        StartOneOn(temperature, raw, exit)

\* ------------------------------------------------------------------ AbortOne
\* AbortOne with the HoldTemp command succeeding (ok) or raising.
AbortOneOn(ok) ==
    /\ target_temp' = IF ok THEN None ELSE target_temp
    /\ lastCall' = Call("AbortOne", None, IF ok THEN "done" ELSE "command")
    /\ reads' = NoReads
    /\ sent' = << << "HoldTemp", None >> >>
    /\ returned' = NoReturn
    /\ alarms' = 0
    /\ ramp_active' = (ramp_active /\ ~ok)
    /\ UNCHANGED << current_temp, move_timeout, attributes, now, completed, rampVars,
                    t96Vars >>

AbortOne == \E ok \in BOOLEAN : AbortOneOn(ok)

\* ---------------------------------------------------------------- parameters
\* SetAxisPar: velocity and step_per_unit (acceleration and base_rate are
\* stored and never read by any handler; they are left out of the record).
SetAxisPar ==
    \/ \E v \in Velocities :
        /\ attributes' = [attributes EXCEPT !.velocity = v]
        /\ lastCall' = Call("SetAxisPar", None, "done")
        /\ reads' = NoReads
        /\ sent' = << >>
        /\ returned' = NoReturn
        /\ UNCHANGED << target_temp, current_temp, move_timeout, now, alarms,
                        ramp_active, completed, rampVars, t96Vars >>
    \/ \E s \in StepsPerUnit :
        /\ attributes' = [attributes EXCEPT !.step_per_unit = s]
        /\ lastCall' = Call("SetAxisPar", None, "done")
        /\ reads' = NoReads
        /\ sent' = << >>
        /\ returned' = NoReturn
        /\ UNCHANGED << target_temp, current_temp, move_timeout, now, alarms,
                        ramp_active, completed, rampVars, t96Vars >>

SetAxisExtraPar ==
    \E tol \in Tolerances :
        /\ attributes' = [attributes EXCEPT !.tolerance = tol]
        /\ lastCall' = Call("SetAxisExtraPar", None, "done")
        /\ reads' = NoReads
        /\ sent' = << >>
        /\ returned' = NoReturn
        /\ UNCHANGED << target_temp, current_temp, move_timeout, now, alarms,
                        ramp_active, completed, rampVars, t96Vars >>

\* --------------------------------------------------------------------- clock
\* Time passes between two calls.
Tick ==
    \E d \in ClockSteps :
        /\ now + d <= MaxTime
        /\ now' = now + d
        /\ lastCall' = Call("Tick", None, "done")
        /\ reads' = NoReads
        /\ sent' = << >>
        /\ returned' = NoReturn
        /\ UNCHANGED << target_temp, current_temp, move_timeout, attributes, alarms,
                        ramp_active, completed, rampVars, t96Vars >>

\* ====================================================== the ramp macros
\* sardana_linkam/macro/linkam.py: linkam_ramp and linkam_ramp_old.  One
\* invocation of one of the two macros is modelled as a sequential process;
\* pc is its position.  Every device call is one step; the value the device
\* returns and whether the call raises are inputs of the step.

\* Iterations of the polling loop the model follows.
MaxPolls == 3

\* Values the temperature attribute returns to the macro, and targets the
\* macro is called with.  On them 100 * (temp - tempi) / (target - tempi) is
\* a whole number, so the float division of the code is exact.
RampTemps == {0, 1, 2}

\* Rates the macro is called with.
Rates == {3}

\* pump_profile = '' (no profile given).
NoProfile == << >>

\* Contents of the pump profile file after the header line: the rows
\* (temperature, pump speed) that run() appends to T_table and P_table.
PumpTables ==
    { << [t |-> 0, p |-> 5], [t |-> 2, p |-> 0] >>,
      << [t |-> 1, p |-> 4], [t |-> 2, p |-> 1] >>,
      << [t |-> 0, p |-> 6], [t |-> 1, p |-> 3], [t |-> 2, p |-> 1] >> }

\* One entry of trace: a read_attribute, write_attribute or command_inout
\* call on the device proxy (ok: it did not raise), or a value yielded.
Event(kind, name, value, ok) ==
    [kind |-> kind, name |-> name, value |-> value, ok |-> ok]

\* pumpDynamic = pump_profile != '' (linkam_ramp takes no profile).
PumpDynamic == macro = "linkam_ramp_old" /\ pump_profile # NoProfile

\* a / b for b # 0, a a multiple of b.
ExactDiv(a, b) == IF b < 0 THEN (-a) \div (-b) ELSE a \div b

\* progress = 100 * (temp - tempi) / (target - tempi)
Progress(t, ti, tg) == ExactDiv(100 * (t - ti), tg - ti)

\* The progress yielded as computed, without the cap.
Yielded_Uncapped(progress) == progress

\* yield progress if progress < 100 else 100
Yielded(progress) == IF progress < 100 THEN progress ELSE 100

\* An interpolation that carries the first and the last chord on beyond the
\* ends of the table.
Interp_Extrapolated(x, table) ==
    LET n == Len(table)
        i == IF x < table[1].t THEN 1
             ELSE IF x >= table[n].t THEN n - 1
             ELSE CHOOSE k \in 1..(n - 1) : table[k].t <= x /\ x < table[k + 1].t
        w == table[i + 1].t - table[i].t
    IN  [num |-> table[i].p * w + (table[i + 1].p - table[i].p) * (x - table[i].t),
         den |-> w]

\* np.interp(x, T_table, P_table) as a fraction num / den, den > 0: the first
\* pump speed up to the first temperature, the last one from the last
\* temperature on, the chord between two neighbouring rows in between.
Interp(x, table) ==
    LET n == Len(table)
    IN  IF x <= table[1].t THEN [num |-> table[1].p, den |-> 1]
        ELSE IF x >= table[n].t THEN [num |-> table[n].p, den |-> 1]
        ELSE LET i == CHOOSE k \in 1..(n - 1) : table[k].t <= x /\ x < table[k + 1].t
                 w == table[i + 1].t - table[i].t
             IN  [num |-> table[i].p * w + (table[i + 1].p - table[i].p) * (x - table[i].t),
                  den |-> w]

\* int(pump): the fraction cut towards zero.
IntOf(q) == IF q.num >= 0 THEN q.num \div q.den ELSE -((-q.num) \div q.den)

\* int(np.interp(temp, self.T_table, self.P_table))
PumpSetpoint(x, table) == IntOf(Interp(x, table))

\* A loop test that ignores the direction: poll until the reading equals the target.
LoopCondition_UntilEqual(tg, t, up) == tg # t

\* A loop test that still holds at the target itself.
LoopCondition_Inclusive(tg, t, up) == (tg >= t /\ up) \/ (tg <= t /\ ~up)

\* while ((target > temp and rampup) or (target < temp and not rampup))
LoopCondition(tg, t, up) == (tg > t /\ up) \/ (tg < t /\ ~up)

\* Successful temperature reads of the polling loop so far.
Polls(tr) == Cardinality({ i \in 2..Len(tr) : tr[i].kind = "read" /\ tr[i].ok })

\* tempi = self.get_linkam_temperature(); rampup = target > tempi
ReadInitial ==
    /\ pc = "tempi"
    /\ \E ok \in BOOLEAN, v \in RampTemps :
        /\ (~ok => v = 0)
        /\ trace' = Append(trace, Event("read", "temperature",
                                        IF ok THEN << v >> ELSE << >>, ok))
        /\ tempi' = IF ok THEN v ELSE tempi
        /\ rampup' = IF ok THEN ramp_target > v ELSE rampup
        /\ pc' = IF ~ok THEN "raised"
                 ELSE IF PumpDynamic THEN "profile" ELSE "StartRamp"
    /\ UNCHANGED << macro, ramp_target, rate, pump_profile, temp, pump, vars, t96Vars >>

\* linkam_ramp_old, pumpDynamic: the profile file is read into T_table and
\* P_table, or reading it raises.
LoadProfile ==
    /\ pc = "profile"
    /\ \E ok \in BOOLEAN :
        pc' = IF ~ok THEN "raised"
              ELSE IF rampup THEN "pump_zero" ELSE "StartRamp"
    /\ UNCHANGED << macro, ramp_target, rate, pump_profile, tempi, temp, rampup, trace,
                    pump, vars, t96Vars >>

\* if rampup: self.linkam_dev.write_attribute('Pumpspeed', 0)
PumpZero ==
    /\ pc = "pump_zero"
    /\ \E ok \in BOOLEAN :
        /\ trace' = Append(trace, Event("write", "Pumpspeed", << 0 >>, ok))
        /\ pc' = IF ok THEN "StartRamp" ELSE "raised"
    /\ UNCHANGED << macro, ramp_target, rate, pump_profile, tempi, temp, rampup, pump, vars, t96Vars >>

\* StartRamp sent with its two arguments exchanged.
StartRamp_TargetFirst ==
    /\ pc = "StartRamp"
    /\ \E ok \in BOOLEAN :
        /\ trace' = Append(trace, Event("command", "StartRamp", << ramp_target, rate >>, ok))
        /\ temp' = IF ok THEN tempi ELSE temp
        /\ pc' = IF ok THEN "while" ELSE "raised"
    /\ UNCHANGED << macro, ramp_target, rate, pump_profile, tempi, rampup, pump, vars, t96Vars >>

\* self.linkam_dev.command_inout('StartRamp', (rate, target)); temp = tempi
StartRamp ==
    /\ pc = "StartRamp"
    /\ \E ok \in BOOLEAN :
        /\ trace' = Append(trace, Event("command", "StartRamp", << rate, ramp_target >>, ok))
        /\ temp' = IF ok THEN tempi ELSE temp
        /\ pc' = IF ok THEN "while" ELSE "raised"
    /\ UNCHANGED << macro, ramp_target, rate, pump_profile, tempi, rampup, pump, vars, t96Vars >>

\* A loop that is also left when the axis has just reported Alarm.
While_StopsOnAlarm ==
    /\ pc = "while"
    /\ LoopCondition(ramp_target, temp, rampup) => Polls(trace) < MaxPolls
    /\ pc' = IF LoopCondition(ramp_target, temp, rampup) /\ returned.state # "Alarm"
             THEN "sleep"
             ELSE IF PumpDynamic THEN "final_pump" ELSE "done"
    /\ UNCHANGED << macro, ramp_target, rate, pump_profile, tempi, temp, rampup, trace,
                    pump, vars, t96Vars >>

\* The loop test: into the body, or past the loop.
While ==
    /\ pc = "while"
    /\ LoopCondition(ramp_target, temp, rampup) => Polls(trace) < MaxPolls
    /\ pc' = IF LoopCondition(ramp_target, temp, rampup) THEN "sleep"
             ELSE IF PumpDynamic THEN "final_pump" ELSE "done"
    /\ UNCHANGED << macro, ramp_target, rate, pump_profile, tempi, temp, rampup, trace,
                    pump, vars, t96Vars >>

\* A poll followed by a pump write in either direction of the ramp.
Poll_PumpEitherWay ==
    /\ pc = "sleep"
    /\ \E ok \in BOOLEAN, v \in RampTemps :
        /\ (~ok => v = 0)
        /\ trace' = Append(trace, Event("read", "temperature",
                                        IF ok THEN << v >> ELSE << >>, ok))
        /\ temp' = IF ok THEN v ELSE temp
        /\ pc' = IF ~ok THEN "raised"
                 ELSE IF PumpDynamic THEN "pump" ELSE "yield"
    /\ UNCHANGED << macro, ramp_target, rate, pump_profile, tempi, rampup, pump, vars, t96Vars >>

\* A poll that sleeps and reads again when the read fails.
Poll_Retries ==
    /\ pc = "sleep"
    /\ \E ok \in BOOLEAN, v \in RampTemps :
        /\ (~ok => v = 0)
        /\ trace' = Append(trace, Event("read", "temperature",
                                        IF ok THEN << v >> ELSE << >>, ok))
        /\ temp' = IF ok THEN v ELSE temp
        /\ pc' = IF ~ok THEN (IF Len(trace) < 2 * MaxPolls THEN "sleep" ELSE "raised")
                 ELSE IF PumpDynamic /\ ~rampup THEN "pump" ELSE "yield"
    /\ UNCHANGED << macro, ramp_target, rate, pump_profile, tempi, rampup, pump, vars, t96Vars >>

\* time.sleep(0.1); temp = self.get_linkam_temperature()
Poll ==
    /\ pc = "sleep"
    /\ \E ok \in BOOLEAN, v \in RampTemps :
        /\ (~ok => v = 0)
        /\ trace' = Append(trace, Event("read", "temperature",
                                        IF ok THEN << v >> ELSE << >>, ok))
        /\ temp' = IF ok THEN v ELSE temp
        /\ pc' = IF ~ok THEN "raised"
                 ELSE IF PumpDynamic /\ ~rampup THEN "pump" ELSE "yield"
    /\ UNCHANGED << macro, ramp_target, rate, pump_profile, tempi, rampup, pump, vars, t96Vars >>

\* A pump write in the loop computed from the initial temperature.
PumpWrite_AtInitial ==
    /\ pc = "pump"
    /\ \E ok \in BOOLEAN :
        /\ trace' = Append(trace, Event("write", "Pumpspeed",
                                        << PumpSetpoint(tempi, pump_profile) >>, ok))
        /\ pc' = IF ok THEN "yield" ELSE "raised"
    /\ pump' = Interp(tempi, pump_profile)
    /\ UNCHANGED << macro, ramp_target, rate, pump_profile, tempi, temp, rampup, vars, t96Vars >>

\* if pumpDynamic and not rampup: write_attribute('Pumpspeed', int(pump))
PumpWrite ==
    /\ pc = "pump"
    /\ \E ok \in BOOLEAN :
        /\ trace' = Append(trace, Event("write", "Pumpspeed",
                                        << PumpSetpoint(temp, pump_profile) >>, ok))
        /\ pc' = IF ok THEN "yield" ELSE "raised"
    /\ pump' = Interp(temp, pump_profile)
    /\ UNCHANGED << macro, ramp_target, rate, pump_profile, tempi, temp, rampup, vars, t96Vars >>

\* progress = ...; yield progress if progress < 100 else 100
\* (target = tempi: the division raises ZeroDivisionError).
Yield ==
    /\ pc = "yield"
    /\ IF ramp_target = tempi
       THEN pc' = "raised" /\ trace' = trace
       ELSE /\ pc' = "checkPoint"
            /\ trace' = Append(trace, Event("yield", "progress",
                                 << Yielded(Progress(temp, tempi, ramp_target)) >>, TRUE))
    /\ UNCHANGED << macro, ramp_target, rate, pump_profile, tempi, temp, rampup, pump, vars, t96Vars >>

\* self.checkPoint(), then back to the loop test.
CheckPoint ==
    /\ pc = "checkPoint"
    /\ pc' = "while"
    /\ UNCHANGED << macro, ramp_target, rate, pump_profile, tempi, temp, rampup, trace,
                    pump, vars, t96Vars >>

\* A pump write after the loop computed from the initial temperature.
FinalPump_AtInitial ==
    /\ pc = "final_pump"
    /\ \E ok \in BOOLEAN :
        /\ trace' = Append(trace, Event("write", "Pumpspeed",
                                        << PumpSetpoint(tempi, pump_profile) >>, ok))
        /\ pc' = IF ok THEN "done" ELSE "raised"
    /\ pump' = Interp(tempi, pump_profile)
    /\ UNCHANGED << macro, ramp_target, rate, pump_profile, tempi, temp, rampup, vars, t96Vars >>

\* After the loop, if pumpDynamic: write_attribute('Pumpspeed', int(pump))
FinalPump ==
    /\ pc = "final_pump"
    /\ \E ok \in BOOLEAN :
        /\ trace' = Append(trace, Event("write", "Pumpspeed",
                                        << PumpSetpoint(temp, pump_profile) >>, ok))
        /\ pc' = IF ok THEN "done" ELSE "raised"
    /\ pump' = Interp(temp, pump_profile)
    /\ UNCHANGED << macro, ramp_target, rate, pump_profile, tempi, temp, rampup, vars, t96Vars >>

\* The positions of the polling loop.
LoopPcs == {"while", "sleep", "pump", "yield", "checkPoint"}

\* The macro environment cancels the invocation at a point of its polling
\* loop: run() goes no further and on_abort is called.
Cancel ==
    /\ pc \in LoopPcs
    /\ pc' = "on_abort"
    /\ UNCHANGED << macro, ramp_target, rate, pump_profile, tempi, temp, rampup, trace,
                    pump, vars, t96Vars >>

\* on_abort that returns without a command to the device.
OnAbort_NoHold ==
    /\ pc = "on_abort"
    /\ pc' = "aborted"
    /\ UNCHANGED << macro, ramp_target, rate, pump_profile, tempi, temp, rampup, trace,
                    pump, vars, t96Vars >>

\* on_abort: self.linkam_dev.command_inout('HoldTemp')
OnAbort ==
    /\ pc = "on_abort"
    /\ \E ok \in BOOLEAN :
        trace' = Append(trace, Event("command", "HoldTemp", << >>, ok))
    /\ pc' = "aborted"
    /\ UNCHANGED << macro, ramp_target, rate, pump_profile, tempi, temp, rampup, pump, vars, t96Vars >>

\* ================================================= LinkamT96MotorCtrl
\* sardana_linkam/ctrl/LinkamT96MotorCtrl.py: SetAxisPar and GetAxisPar.

\* The axes of the controller (MaxDevice = 3) and their names.
axis2motor == << "axis_tst_stretcher", "axis_tst_temperature", "axis_css_shearing" >>

\* The parameter names the pool passes, after name.lower().
ParNames == {"velocity", "step_per_unit", "acceleration", "deceleration", "base_rate"}

\* Values a parameter is set to, and values the device returns for ramp_rate.
ParValues == {1, 2}

\* axis in ['tst_stretcher', 'tst_temperature']: axis is a key of axis2motor,
\* a number, and a number equals neither of the two strings.
AxisInNames(axis) == FALSE

\* How a call ended, the value it returned (GetAxisPar) and the attribute
\* writes it sent to the device.
T96Call(op, axis, name, exit, value, writes) ==
    [op |-> op, axis |-> axis, name |-> name, exit |-> exit, value |-> value,
     writes |-> writes]

\* SetAxisPar(axis, name, value); ok: the device accepts the write.
T96_SetAxisParOn(axis, name, value, ok) ==
    LET axis_name == axis2motor[axis]
        velocity == value * t96_attributes.step_per_unit
        done(exit, writes) == t96_call' = T96Call("SetAxisPar", axis, name, exit, None, writes)
    IN  IF name = "velocity" /\ axis_name = "axis_tst_stretcher"
        THEN /\ done(IF ok THEN "returned" ELSE "DevFailed",
                     << << "tst_motor_velocity", velocity >> >>)
             /\ t96_attributes' = IF ok THEN [t96_attributes EXCEPT !.velocity = velocity]
                                  ELSE t96_attributes
        ELSE IF name = "velocity" /\ axis_name = "axis_tst_temperature"
        THEN /\ done(IF ok THEN "returned" ELSE "DevFailed", << << "ramp_rate", value >> >>)
             /\ t96_attributes' = t96_attributes
        ELSE IF name = "step_per_unit" /\ axis_name = "axis_tst_stretcher"
        THEN /\ done("returned", << >>)
             /\ t96_attributes' = [t96_attributes EXCEPT !.step_per_unit = value]
        ELSE IF name = "step_per_unit" /\ axis_name = "axis_tst_temperature"
        THEN /\ done("Exception", << >>)
             /\ t96_attributes' = t96_attributes
        ELSE IF name \in {"acceleration", "deceleration", "base_rate"} /\ AxisInNames(axis)
        THEN /\ done("Exception", << >>)
             /\ t96_attributes' = t96_attributes
        ELSE /\ done("returned", << >>)
             /\ t96_attributes' = t96_attributes

T96_SetAxisPar ==
    /\ \E axis \in DOMAIN axis2motor, name \in ParNames, value \in ParValues, ok \in BOOLEAN :
        /\ (~ok => name = "velocity" /\ axis \in {1, 2})
        /\ T96_SetAxisParOn(axis, name, value, ok)
    /\ UNCHANGED << vars, rampVars >>

\* GetAxisPar(axis, name); ok: the device answers the read of ramp_rate with
\* ramp_rate.  A path that reaches 'return value' without an assignment to
\* value ends in UnboundLocalError.
T96_GetAxisParOn(axis, name, ok, ramp_rate) ==
    LET axis_name == axis2motor[axis]
        done(exit, value) == t96_call' = T96Call("GetAxisPar", axis, name, exit, value, << >>)
    IN  IF name = "velocity" /\ axis_name = "axis_tst_stretcher"
        THEN done("returned", << t96_attributes.velocity, t96_attributes.step_per_unit >>)
        ELSE IF name = "velocity" /\ axis_name = "axis_tst_temperature"
        THEN done(IF ok THEN "returned" ELSE "DevFailed",
                  IF ok THEN << ramp_rate, 1 >> ELSE None)
        ELSE IF name = "step_per_unit" /\ axis_name = "axis_tst_stretcher"
        THEN done("returned", << t96_attributes.step_per_unit, 1 >>)
        ELSE IF name = "step_per_unit" /\ axis_name = "axis_tst_temperature"
        THEN done("Exception", None)
        ELSE IF name \in {"acceleration", "deceleration", "base_rate"} /\ AxisInNames(axis)
        THEN done("Exception", None)
        ELSE done("UnboundLocalError", None)

T96_GetAxisPar ==
    /\ \E axis \in DOMAIN axis2motor, name \in ParNames, ok \in BOOLEAN, ramp_rate \in ParValues :
        /\ (name = "velocity" /\ axis = 2 /\ ok) \/ ramp_rate = 1
        /\ (~ok => name = "velocity" /\ axis = 2)
        /\ T96_GetAxisParOn(axis, name, ok, ramp_rate)
    /\ UNCHANGED << t96_attributes, vars, rampVars >>

\* __init__ and AddDevice of the axes; no parameter call was made yet.
T96Init ==
    /\ t96_attributes = [step_per_unit |-> 1, velocity |-> 1]
    /\ t96_call = T96Call("__init__", 0, "", "returned", None, << >>)

\* No macro is invoked.
NoMacro ==
    /\ macro = "none"
    /\ ramp_target = 0
    /\ rate = 0
    /\ pump_profile = NoProfile
    /\ tempi = 0
    /\ temp = 0
    /\ rampup = FALSE
    /\ pump = [num |-> 0, den |-> 1]
    /\ pc = "none"
    /\ trace = << >>

\* A macro is invoked: linkam_ramp(target, rate) or
\* linkam_ramp_old(rate, temperature, pump_profile).
MacroCalled ==
    /\ macro \in {"linkam_ramp", "linkam_ramp_old"}
    /\ ramp_target \in RampTemps
    /\ rate \in Rates
    /\ pump_profile \in IF macro = "linkam_ramp_old"
                        THEN PumpTables \cup {NoProfile}
                        ELSE {NoProfile}
    /\ tempi = 0
    /\ temp = 0
    /\ rampup = FALSE
    /\ pump = [num |-> 0, den |-> 1]
    /\ pc = "tempi"
    /\ trace = << >>

\* ---------------------------------------------------------------------- Init
\* __init__ followed by AddDevice(axis); no StateOne has run yet.
AxisInit ==
    /\ target_temp = None
    /\ current_temp = None
    /\ move_timeout = Inf
    /\ attributes = [step_per_unit |-> 1, velocity |-> 1, tolerance |-> 0]
    /\ now = 0
    /\ lastCall = Call("__init__", None, "done")
    /\ reads = NoReads
    /\ returned = NoReturn
    /\ alarms = 0
    /\ ramp_active = FALSE
    /\ sent = << >>
    /\ completed = FALSE

\* The axis after construction; no macro runs.
Init == AxisInit /\ NoMacro /\ T96Init

\* The handlers of the axis.
Next ==
    \/ StateOne
    \/ ReadOne
    \/ StartOne
    \/ AbortOne
    \/ SetAxisPar
    \/ SetAxisExtraPar
    \/ Tick

Spec == Init /\ [][Next]_vars

\* One invocation of a ramp macro; the axis is not called.
RampInit == AxisInit /\ MacroCalled /\ T96Init

RampNext ==
    \/ ReadInitial
    \/ LoadProfile
    \/ PumpZero
    \/ StartRamp
    \/ While
    \/ Poll
    \/ PumpWrite
    \/ Yield
    \/ CheckPoint
    \/ FinalPump
    \/ Cancel
    \/ OnAbort

SpecRamp == RampInit /\ [][RampNext]_rampVars

\* The parameter calls on LinkamT96MotorCtrl; the other two are not called.
T96Next ==
    \/ T96_SetAxisPar
    \/ T96_GetAxisPar

SpecT96 == Init /\ [][T96Next]_t96Vars

\* ------------------------------------------- a macro beside a polled axis
\* The axis after SetAxisPar(velocity = 2), SetAxisExtraPar(tolerance = 1)
\* and a StartOne(axis, 1) that read Temperature 0 at time 0.
AxisStarted ==
    /\ target_temp = << 1 >>
    /\ current_temp = << 0 >>
    /\ move_timeout = << MoveTimeout(0, 1, 2) >>
    /\ attributes = [step_per_unit |-> 1, velocity |-> 2, tolerance |-> 1]
    /\ now = 0
    /\ lastCall = Call("StartOne", << 1 >>, "done")
    /\ reads = NoReads
    /\ returned = NoReturn
    /\ alarms = 0
    /\ ramp_active = TRUE
    /\ sent = << << "StartRamp", << 120, 1 >> >> >>
    /\ completed = FALSE

\* linkam_ramp is invoked while the pool polls the axis of a started ramp.
BothInit == AxisStarted /\ MacroCalled /\ macro = "linkam_ramp" /\ T96Init

\* The steps of linkam_ramp, interleaved with the polls of the axis and the
\* passing of time.
BothNext ==
    \/ StateOne
    \/ Tick
    \/ ReadInitial
    \/ StartRamp
    \/ While
    \/ Poll
    \/ Yield
    \/ CheckPoint
    \/ Cancel
    \/ OnAbort

bothVars == << vars, rampVars >>

SpecBoth == BothInit /\ [][BothNext]_bothVars

\* --------------------------------------- the macros beside a healthy axis
\* What the device returns to a poll while it answers, reports no error and
\* runs its heating program; it may be idle or not.
HealthyReads ==
    { r \in PollReads : ~r.failed /\ r.error = NoError /\ r.program = "Heating" }

\* StateOne on a device in good health.
StateOneHealthy == \E r \in HealthyReads : StateOneOn(r)

\* Either macro is invoked while the pool polls the axis of a started ramp.
LiveInit == AxisStarted /\ MacroCalled /\ T96Init

LiveNext ==
    \/ StateOneHealthy
    \/ Tick
    \/ RampNext

\* The macro is scheduled again and again: the macro environment runs it in
\* a thread of its own and resumes it after each yield.
SpecLive == LiveInit /\ [][LiveNext]_bothVars /\ WF_bothVars(RampNext)

\* ==================================================================== claims
\* The step is a StateOne poll.
Polled == lastCall'.op = "StateOne"

\* The step is a StateOne poll whose reads all succeeded with ErrorMsg
\* "No_error".
PolledHealthy == Polled /\ ~reads'.failed /\ reads'.error = NoError

\* C1: every poll whose reads succeed with a healthy ErrorMsg at a time at or
\* after the stored move timeout reports Alarm, idle or not, whatever the
\* tolerance and the gap between target and current temperature.
C1_AlarmFromTimeoutOn ==
    [][(PolledHealthy /\ move_timeout # Inf /\ now >= move_timeout[1])
       => returned'.state = "Alarm"]_vars

\* C1 witness: an idle, healthy poll of a started ramp, past its timeout, with
\* a positive tolerance and the current temperature on the target, reported
\* Alarm.
C1_Witness ==
    /\ lastCall.op = "StateOne"
    /\ ~reads.failed /\ reads.error = NoError /\ reads.idle
    /\ returned.state = "Alarm"
    /\ ramp_active
    /\ attributes.tolerance > 0
    /\ target_temp # None
    /\ current_temp = target_temp
    /\ now >= move_timeout[1]

\* C2: a poll in which one of the three reads fails reports Fault with the
\* fixed communication message and leaves target, current temperature, move
\* timeout and tolerance as they were.
C2_CommFailureIsFault ==
    [][(Polled /\ reads'.failed)
       => /\ returned' = [state |-> "Fault", status |-> "DS communication problem"]
          /\ target_temp' = target_temp
          /\ current_temp' = current_temp
          /\ move_timeout' = move_timeout
          /\ attributes' = attributes]_vars

\* C2 witness: a failed poll of a started ramp past its timeout reported the
\* communication Fault and the ramp's target and timeout are still stored.
C2_Witness ==
    /\ lastCall.op = "StateOne"
    /\ reads.failed
    /\ returned.state = "Fault"
    /\ ramp_active
    /\ target_temp # None
    /\ move_timeout # Inf
    /\ now >= move_timeout[1]

\* C3: a poll whose reads succeed with ErrorMsg other than "No_error" reports
\* Fault with the Program string as message, before any timeout, idle or
\* tolerance test, and leaves target and move timeout unchanged.
C3_InstrumentErrorIsFault ==
    [][(Polled /\ ~reads'.failed /\ reads'.error # NoError)
       => /\ returned' = [state |-> "Fault", status |-> reads'.program]
          /\ target_temp' = target_temp
          /\ move_timeout' = move_timeout]_vars

\* C3 witness: past the timeout of a started ramp, an idle poll with an
\* instrument error and Program "Holding" reported Fault.
C3_Witness ==
    /\ lastCall.op = "StateOne"
    /\ ~reads.failed /\ reads.error # NoError /\ reads.idle
    /\ reads.program = "Holding"
    /\ returned.state = "Fault"
    /\ target_temp # None
    /\ move_timeout # Inf
    /\ now >= move_timeout[1]

\* C4: an idle, healthy poll before the timeout, with target and current
\* temperature set, tolerance > 0 and |target - current| <= tolerance,
\* reports On and leaves target None and the move timeout infinite.
C4_SettlesWithinTolerance ==
    [][(PolledHealthy /\ reads'.idle
          /\ (move_timeout = Inf \/ now < move_timeout[1])
          /\ target_temp # None /\ current_temp # None
          /\ attributes.tolerance > 0
          /\ Abs(target_temp[1] - current_temp[1]) <= attributes.tolerance)
       => /\ returned'.state = "On"
          /\ target_temp' = None
          /\ move_timeout' = Inf]_vars

\* C4 witness: a poll took the tolerance path and reported On; target and
\* timeout are reset.
C4_Witness ==
    /\ lastCall = Call("StateOne", None, "settled")
    /\ reads.idle
    /\ returned.state = "On"
    /\ attributes.tolerance > 0
    /\ target_temp = None
    /\ move_timeout = Inf
    /\ current_temp # None

\* C5 as stated: an idle, healthy poll with tolerance 0 reports On, whatever
\* the gap between target and current temperature (and whatever the time).
C5_OnWheneverToleranceZero ==
    [][(PolledHealthy /\ reads'.idle /\ attributes.tolerance = 0)
       => returned'.state = "On"]_vars

\* C5 as amended: an idle, healthy poll with tolerance 0 at a time before the
\* move timeout reports On, whatever the gap between target and current
\* temperature.
C5_OnBeforeTimeoutToleranceZero ==
    [][(PolledHealthy /\ reads'.idle /\ attributes.tolerance = 0
          /\ (move_timeout = Inf \/ now < move_timeout[1]))
       => returned'.state = "On"]_vars

\* C5 witness: with tolerance 0 and the current temperature off the target of
\* a started ramp, an idle poll before the timeout reported On.
C5_Witness ==
    /\ lastCall.op = "StateOne"
    /\ ~reads.failed /\ reads.error = NoError /\ reads.idle
    /\ returned.state = "On"
    /\ attributes.tolerance = 0
    /\ target_temp # None
    /\ current_temp # None
    /\ current_temp # target_temp
    /\ move_timeout # Inf
    /\ now < move_timeout[1]

\* C6: a healthy poll with the idle flag false before the timeout reports
\* Moving and leaves target and move timeout unchanged, whatever the
\* tolerance and however close the current temperature is to the target.
C6_BusyIsMoving ==
    [][(PolledHealthy /\ ~reads'.idle
          /\ (move_timeout = Inf \/ now < move_timeout[1]))
       => /\ returned'.state = "Moving"
          /\ target_temp' = target_temp
          /\ move_timeout' = move_timeout]_vars

\* C6 witness: a not-idle poll of a started ramp reported Moving although the
\* tolerance is positive and the current temperature is on the target.
C6_Witness ==
    /\ lastCall.op = "StateOne"
    /\ ~reads.failed /\ reads.error = NoError /\ ~reads.idle
    /\ returned.state = "Moving"
    /\ ramp_active
    /\ attributes.tolerance > 0
    /\ target_temp # None
    /\ current_temp = target_temp
    /\ move_timeout # Inf

\* C7: once a poll has reported Alarm, every later healthy poll reports Alarm
\* too, until StartOne or AbortOne is called.
C7_AlarmPersists ==
    [][(PolledHealthy /\ alarms > 0) => returned'.state = "Alarm"]_vars

\* C7 witness: a second poll reported Alarm with no StartOne/AbortOne since
\* the first, idle, with a positive tolerance and the current temperature on
\* the target.
C7_Witness ==
    /\ lastCall.op = "StateOne"
    /\ alarms = 2
    /\ returned.state = "Alarm"
    /\ reads.idle
    /\ attributes.tolerance > 0
    /\ target_temp # None
    /\ current_temp = target_temp

\* C8 as stated: after AbortOne returns, target is None and the move timeout
\* is infinite.
C8_AbortResetsRampState ==
    (lastCall.op = "AbortOne" /\ lastCall.exit = "done")
    => (target_temp = None /\ move_timeout = Inf)

\* C9 as stated: target is set exactly while a ramp is started and neither
\* completed nor aborted; in particular, when a poll reports On for a started
\* ramp, target is None afterwards, for any tolerance.
C9_TargetClearedOnCompletion ==
    [][(Polled /\ ramp_active /\ returned'.state = "On")
       => target_temp' = None]_vars

\* C10: after a StartOne that returns, the stored target is the commanded one
\* and the move timeout is this call's time plus twice the ramp time of this
\* call's distance (as StartOne measures it, between the position it read and
\* the scaled target) at this call's velocity plus the startup allowance;
\* nothing of an earlier ramp is kept.
C10_StartOneIsFresh ==
    [][(lastCall'.op = "StartOne" /\ lastCall'.exit = "done")
       => /\ target_temp' = lastCall'.arg
          /\ move_timeout' =
               << now + 30
                  + (120 * Abs(current_temp'[1]
                               - lastCall'.arg[1] * attributes.step_per_unit))
                    \div attributes.velocity >>]_vars

\* C10 witness: StartOne returned at a time an earlier timeout could have
\* passed; a target and a timeout in the future are stored.
C10_Witness ==
    /\ lastCall.op = "StartOne"
    /\ lastCall.exit = "done"
    /\ target_temp = lastCall.arg
    /\ move_timeout # Inf
    /\ now >= 60
    /\ move_timeout[1] > now

\* C11 as stated: after a StartOne that returns, the move timeout is this
\* call's time + 2 * (|target - c| / rate * 60) + 30, target and the
\* temperature c read at start both taken in position units, for every
\* step_per_unit.
C11_TimeoutFromPositionDistance ==
    [][(lastCall'.op = "StartOne" /\ lastCall'.exit = "done")
       => move_timeout' =
            << now + 30
               + (120 * Abs(target_temp'[1] - current_temp'[1]))
                 \div attributes.velocity >>]_vars

\* ------------------------------------------------------- the ramp macros
\* The places of trace that hold an entry of the given kind and name.
Entries(tr, kind, name) == { i \in 1..Len(tr) : tr[i].kind = kind /\ tr[i].name = name }

\* The values yielded so far, in order.
RECURSIVE YieldedValues(_)
YieldedValues(tr) ==
    IF tr = << >> THEN << >>
    ELSE IF Head(tr).kind = "yield"
         THEN << Head(tr).value[1] >> \o YieldedValues(Tail(tr))
         ELSE YieldedValues(Tail(tr))

\* The invocation was cancelled.
Cancelled == pc \in {"on_abort", "aborted"}

\* C12: one invocation of linkam_ramp or linkam_ramp_old issues no HoldTemp
\* as long as it is not cancelled; cancelled at any position of its polling
\* loop it has issued exactly one HoldTemp when it has returned, and yields
\* nothing from the cancellation on.
C12_OneHoldOnCancel ==
    [][/\ ~Cancelled' => Entries(trace', "command", "HoldTemp") = {}
       /\ pc' = "aborted" => Cardinality(Entries(trace', "command", "HoldTemp")) = 1
       /\ Cancelled => YieldedValues(trace') = YieldedValues(trace)]_rampVars

\* A ramp cancelled in its last iteration, after the reading that reached the
\* target was yielded, has returned with its hold issued.
C12_Witness ==
    /\ pc = "aborted"
    /\ Len(YieldedValues(trace)) >= 2
    /\ trace[Len(trace) - 1] = Event("yield", "progress", << 100 >>, TRUE)
    /\ ~LoopCondition(ramp_target, temp, rampup)
    /\ trace[Len(trace)].name = "HoldTemp"

\* The temperatures the polling loop has read so far, in order (the first
\* entry of trace is the initial read).
RECURSIVE LoopReadings(_)
LoopReadings(tr) ==
    IF Len(tr) <= 1 THEN << >>
    ELSE LET e == tr[Len(tr)]
             before == LoopReadings(SubSeq(tr, 1, Len(tr) - 1))
         IN  IF e.kind = "read" /\ e.ok THEN Append(before, e.value[1]) ELSE before

Min(a, b) == IF a <= b THEN a ELSE b

\* The initial temperature was read.
InitialRead == trace # << >> /\ trace[1].ok

\* C13: with initial reading i # target t and loop readings r1..rn, the values
\* yielded are min(100, 100 * (rk - i) / (t - i)) for k = 1..n in this order:
\* one per loop reading (the last reading may still wait for its yield),
\* none for the initial reading, nothing else.
C13_ProgressSequence ==
    (InitialRead /\ tempi # ramp_target) =>
        LET r == LoopReadings(trace)
            y == YieldedValues(trace)
        IN  /\ Len(y) <= Len(r)
            /\ Len(r) <= Len(y) + 1
            /\ pc \in {"checkPoint", "while", "sleep", "final_pump", "done"} => Len(y) = Len(r)
            /\ \A k \in 1..Len(y) :
                  y[k] = Min(100, ExactDiv(100 * (r[k] - tempi), ramp_target - tempi))

\* A ramp from 0 to 1 that read 0, then 2, is done and has yielded 0, then 100.
C13_Witness ==
    /\ pc = "done"
    /\ trace[1] = Event("read", "temperature", << 0 >>, TRUE)
    /\ ramp_target = 1
    /\ LoopReadings(trace) = << 0, 2 >>
    /\ YieldedValues(trace) = << 0, 100 >>

\* C14 as stated: every value a ramp macro yields lies in [0, 100], whatever
\* temperatures the device returns, readings that move away from the target
\* included.
C14_ProgressWithinRange ==
    \A i \in Entries(trace, "yield", "progress") :
        0 <= trace[i].value[1] /\ trace[i].value[1] <= 100

\* The reading v has reached or passed the target in the ramp direction.
Reached(v) == IF rampup THEN v >= ramp_target ELSE v <= ramp_target

\* C15: the progress sequence ends at the first loop reading that has reached
\* or passed the target in the ramp direction: 100 is yielded for a reading
\* exactly if it has reached the target, no reading before the last one has,
\* the loop is left only with such a last reading (or without any reading),
\* and no further poll is on its way after one.
C15_EndsAtFirstReached ==
    InitialRead =>
        LET r == LoopReadings(trace)
            y == YieldedValues(trace)
        IN  /\ \A k \in 1..Len(y) : (y[k] = 100) <=> Reached(r[k])
            /\ \A k \in 1..(Len(r) - 1) : ~Reached(r[k])
            /\ pc \in {"final_pump", "done"} => (r = << >> \/ Reached(r[Len(r)]))
            /\ pc = "sleep" => (r = << >> \/ ~Reached(r[Len(r)]))

\* A ramp down from 2 to 1 that read 2, then 0, is done and has yielded 0, then 100.
C15_Witness ==
    /\ pc = "done"
    /\ tempi = 2
    /\ ramp_target = 1
    /\ ~rampup
    /\ LoopReadings(trace) = << 2, 0 >>
    /\ YieldedValues(trace) = << 0, 100 >>
    /\ trace[Len(trace)].kind = "yield"

\* C16: the progress formula is never evaluated with target = tempi, and a
\* ramp whose target equals the initial reading never enters the body of its
\* polling loop: it reads nothing more and yields nothing.
C16_NoDivisionByZero ==
    /\ pc = "yield" => ramp_target # tempi
    /\ (InitialRead /\ ramp_target = tempi) =>
          /\ pc \notin {"sleep", "pump", "yield", "checkPoint"}
          /\ LoopReadings(trace) = << >>
          /\ YieldedValues(trace) = << >>

\* linkam_ramp to 1 with the initial reading 1 is done after the initial read
\* and StartRamp.
C16_Witness ==
    /\ macro = "linkam_ramp"
    /\ pc = "done"
    /\ trace = << Event("read", "temperature", << 1 >>, TRUE),
                  Event("command", "StartRamp", << rate, 1 >>, TRUE) >>

\* C17: a device call of run() that fails is the last entry of trace and
\* leaves the invocation raised: no device call and no yield follows it, and
\* after a failed initial read nothing else was sent to the device.
C17_FailStop ==
    /\ \A i \in 1..Len(trace) :
          (~trace[i].ok /\ trace[i].name # "HoldTemp") => (i = Len(trace) /\ pc = "raised")
    /\ (trace # << >> /\ ~trace[1].ok) => Len(trace) = 1

\* A loop read failed after a value was yielded.
C17_Witness ==
    /\ pc = "raised"
    /\ YieldedValues(trace) # << >>
    /\ trace[Len(trace)] = Event("read", "temperature", << >>, FALSE)

\* run() is past the place of its StartRamp call, or has ended.
PastStartRamp == pc \notin {"tempi", "profile", "pump_zero", "StartRamp"}

\* StartRamp is sent at most once, with (rate, target), after the initial
\* read, and no loop poll is made without it.
StartRampInPlace ==
    LET sr == Entries(trace, "command", "StartRamp")
    IN  /\ Cardinality(sr) <= 1
        /\ \A i \in sr : i > 1 /\ trace[i].value = << rate, ramp_target >>
        /\ \A j \in 2..Len(trace) : trace[j].kind = "read" => \E i \in sr : i < j

FailedBeforeStartRamp ==
    /\ pc = "raised"
    /\ PumpDynamic
    /\ \/ Len(trace) = 1 /\ trace[1].ok
       \/ trace = << trace[1], Event("write", "Pumpspeed", << 0 >>, FALSE) >>

LoopLeft == pc \in {"final_pump", "done", "raised"} /\ ~LoopCondition(ramp_target, temp, rampup)

PumpWritePerIteration(Fits(_, _)) ==
    (PumpDynamic /\ InitialRead /\ ~rampup) =>
        /\ \A i \in Entries(trace, "yield", "progress") :
              /\ i >= 5
              /\ trace[i - 1].kind = "write" /\ trace[i - 1].name = "Pumpspeed" /\ trace[i - 1].ok
              /\ trace[i - 2].kind = "read" /\ trace[i - 2].ok
        /\ \A j \in Entries(trace, "write", "Pumpspeed") :
              \/ /\ j >= 4
                 /\ trace[j - 1].kind = "read"
                 /\ Fits(trace[j].value[1], trace[j - 1].value[1])
              \/ j = Len(trace) /\ LoopLeft /\ pc # "final_pump"

\* v is the interpolation of the profile at t.
IsInterpolation(v, t) ==
    LET q == Interp(t, pump_profile) IN v * q.den = q.num

\* v is the interpolation of the profile at t, cut to a whole number.
IsCutInterpolation(v, t) ==
    LET q == Interp(t, pump_profile)
    IN  v * q.den <= q.num /\ q.num < (v + 1) * q.den

LastReading ==
    LET r == LoopReadings(trace)
    IN  IF r = << >> THEN trace[1].value[1] ELSE r[Len(r)]

\* The place of the last yield in trace (0: nothing was yielded).
LastYield ==
    LET ys == Entries(trace, "yield", "progress")
    IN  IF ys = {} THEN 0 ELSE CHOOSE i \in ys : \A j \in ys : j <= i

\* linkam_ramp_old: without a profile no Pumpspeed write is ever made; with
\* one, no Pumpspeed write follows the last yield while the loop runs, and
\* when run() has ended normally exactly one does, the last device call,
\* with a value that Fits the last temperature read.  (A write directly
\* after a temperature read is the 0 before StartRamp or the write of a loop
\* iteration, not a write after the loop.)
FinalPumpWrite(Fits(_, _)) ==
    macro = "linkam_ramp_old" =>
        LET after == { j \in Entries(trace, "write", "Pumpspeed") :
                         j > LastYield /\ trace[j - 1].name # "temperature" }
        IN  /\ ~PumpDynamic => Entries(trace, "write", "Pumpspeed") = {}
            /\ (PumpDynamic /\ pc \in LoopPcs \cup {"final_pump"}) => after = {}
            /\ (PumpDynamic /\ pc = "done") =>
                  /\ after = {Len(trace)}
                  /\ trace[Len(trace)].ok
                  /\ Fits(trace[Len(trace)].value[1], LastReading)

PiecewiseLinear(q, x, table) ==
    LET n == Len(table)
    IN  /\ q.den > 0
        /\ \A k \in 1..n : x = table[k].t => q.num = table[k].p * q.den
        /\ x < table[1].t => q.num = table[1].p * q.den
        /\ x > table[n].t => q.num = table[n].p * q.den
        /\ \A k \in 1..(n - 1) :
              (table[k].t <= x /\ x <= table[k + 1].t) =>
                  (q.num - table[k].p * q.den) * (table[k + 1].t - table[k].t)
                    = (table[k + 1].p - table[k].p) * (x - table[k].t) * q.den

C23_UnsupportedParameterFails ==
    (/\ t96_call.op \in {"SetAxisPar", "GetAxisPar"}
     /\ \/ t96_call.name \in {"acceleration", "deceleration", "base_rate"}
        \/ t96_call.name = "step_per_unit" /\ axis2motor[t96_call.axis] = "axis_tst_temperature")
    => (t96_call.exit = "Exception" /\ t96_call.writes = << >>)

\* ------------------------------------------- a macro beside a polled axis
\* C24: a step of the macro leaves the target temperature, the current
\* temperature, the move timeout and the parameters of the axis as they are;
\* a StateOne poll sends no command and no attribute write to the device and
\* adds nothing to what the macro sent; the state of the axis changes only in
\* steps of its own handlers.
C24_NoSharedState ==
    [][/\ pc' # pc => UNCHANGED << target_temp, current_temp, move_timeout, attributes >>
       /\ (pc' = pc /\ lastCall'.op = "StateOne") => (sent' = << >> /\ trace' = trace)
       /\ << target_temp, current_temp, move_timeout, attributes >>'
            # << target_temp, current_temp, move_timeout, attributes >>
          => (pc' = pc /\ lastCall'.op \in {"StateOne", "StartOne", "ReadOne", "AbortOne",
                                             "SetAxisPar", "SetAxisExtraPar"})]_bothVars

\* While the macro is in its polling loop, a poll has found the ramp of the
\* axis settled and cleared its target.
C24_Witness ==
    /\ pc \in LoopPcs
    /\ YieldedValues(trace) # << >>
    /\ lastCall = Call("StateOne", None, "settled")
    /\ target_temp = None

\* The invocation has ended: run() returned or raised, or on_abort returned.
Terminated == pc \in {"done", "raised", "aborted"}

\* C25: once a poll of the loop has read a temperature that reached or
\* passed the target, or the invocation was cancelled, the invocation ends;
\* and it leaves its polling loop in no other way than by such a reading, a
\* cancellation or a failing device call, whatever the time and whatever
\* the axis reports.
C25_TerminatesOnTargetOrCancel ==
    /\ ((pc \in {"pump", "yield", "checkPoint", "while"} /\ Reached(temp)) \/ pc = "on_abort")
         ~> Terminated
    /\ [][(pc \in LoopPcs /\ pc' \notin LoopPcs)
           => \/ pc' = "on_abort"
              \/ pc' = "raised" /\ pc \in {"sleep", "pump"}
              \/ pc = "while" /\ Reached(temp)]_bothVars

\* The axis has reported Alarm, and the macro has ended after it by a reading
\* that reached the target.
C25_Witness ==
    /\ pc = "done"
    /\ alarms > 0
    /\ LoopReadings(trace) # << >>
    /\ Reached(temp)
    /\ returned.state = "Alarm"

\* ------------------------------------------------------------ the axis
\* C26: an idle, healthy poll before the timeout, with target and current
\* temperature set, tolerance > 0 and |target - current| > tolerance, reports
\* Moving and leaves target and move timeout as they were.
C26_IdleOutsideToleranceIsMoving ==
    [][(PolledHealthy /\ reads'.idle
          /\ (move_timeout = Inf \/ now < move_timeout[1])
          /\ target_temp # None /\ current_temp # None
          /\ attributes.tolerance > 0
          /\ Abs(target_temp[1] - current_temp[1]) > attributes.tolerance)
       => /\ returned'.state = "Moving"
          /\ target_temp' = target_temp
          /\ move_timeout' = move_timeout]_vars

\* Right after a StartOne returned, at the same time, an idle poll outside
\* the tolerance reported Moving; target and timeout are those of the ramp.
C26_Witness ==
    /\ lastCall = Call("StateOne", None, "waiting")
    /\ reads.idle
    /\ returned.state = "Moving"
    /\ ramp_active
    /\ attributes.tolerance > 0
    /\ target_temp # None /\ current_temp # None
    /\ Abs(target_temp[1] - current_temp[1]) > attributes.tolerance
    /\ move_timeout # Inf
    /\ now < move_timeout[1]

\* C27 as stated: once a poll has reported On for the ramp of a StartOne that
\* returned, and StartOne was not called again, every poll whose reads
\* succeed with a healthy ErrorMsg and the idle flag reports On, whatever the
\* tolerance and the time.
C27_CompletedStaysCompleted ==
    [][(completed /\ PolledHealthy /\ reads'.idle) => returned'.state = "On"]_vars

\* C28 as stated, in the form of what can go on forever: an idle, healthy
\* poll reports Moving only while a finite move timeout is stored, so that
\* the passing of time ends the Moving with an Alarm.  (A poll that reports
\* Moving changes nothing; with an infinite timeout every later idle poll
\* reports Moving again.)
C28_IdleMovingHasDeadline ==
    [][(PolledHealthy /\ reads'.idle /\ returned'.state = "Moving")
       => move_timeout' # Inf]_vars

\* C29 as stated: a StartOne that raises leaves the target temperature and
\* the move timeout as they were.
C29_FailedStartOneChangesNothing ==
    [][(lastCall'.op = "StartOne" /\ lastCall'.exit # "done")
       => (target_temp' = target_temp /\ move_timeout' = move_timeout)]_vars

====
